---- MODULE Spec2Model ----
(***************************************************************************)
(* Model of the conversions generated by the macros of src/src/lib.rs:     *)
(* from!, try_from! and force_from!, in their `as struct` and `as enum`    *)
(* forms.  One conversion call is a run of the generated function body:    *)
(* the struct forms evaluate the field specifications one after another,   *)
(* the enum forms select the arm of the source variant and evaluate it.    *)
(***************************************************************************)
EXTENDS Integers, Sequences, FiniteSets, TLC

\* ------------------------------------------------------------------ bounds
\* Source field and payload values are 0..MaxVal.
MaxVal == 2
\* Number of conversion calls made in one behaviour.
MaxCalls == 2
\* Override expressions evaluate to one of the outcomes 0..MaxOvr.
MaxOvr == 2

Val == 0..MaxVal
OvrVal == 0..MaxOvr

\* ------------------------------------------------------- the example types
\* The destination struct of the request (StructB of the examples): its
\* fields, in declaration order.
Fields == <<"num", "text">>
\* The enum of the request: a zero-payload, a one-payload and a two-payload
\* variant, in the order the request lists them.
Variants == <<"Case1", "Case2", "Case3">>
Arity == [Case1 |-> 0, Case2 |-> 1, Case3 |-> 2]

SeqMap(F(_), s) == [i \in 1..Len(s) |-> F(s[i])]

\* ------------------------------------------- the user's conversions (traits)
\* Into::into of a field or payload: the value carried into the destination
\* type.
Into(v) == [ty |-> "Dst", n |-> v]

\* TryInto::try_into of a field or payload: 0 converts, every other value
\* fails; the error of 1 is of the field's own error type, the others are
\* already of the declared error type.
TryInto(v) ==
    IF v = 0 THEN [kind |-> "Ok", value |-> [ty |-> "Dst", n |-> v]]
    ELSE [kind |-> "Err",
          error |-> [ty |-> IF v = 1 THEN "FieldErr" ELSE "Error", n |-> v]]

\* From::from into the declared error type: what `?` applies to a failure.
FromErr(e) == IF e.ty = "Error" THEN e ELSE [ty |-> "Error", n |-> e.n]

\* A warning of a field's own warning type: the k-th warning that converting
\* v produced during call c.
FieldWarn(v, k, c) == [ty |-> "FieldWarn", n |-> v, k |-> k, call |-> c]

\* ForceInto::force_into of a field or payload: always a value, with as many
\* warnings as the source value says (0 converts cleanly).
ForceInto(v, c) ==
    [value |-> [ty |-> "Dst", n |-> v],
     warnings |-> [k \in 1..v |-> FieldWarn(v, k, c)]]

\* Into::into into the destination's warning type.
IntoWarn(w) == IF w.ty = "Warn" THEN w ELSE [w EXCEPT !.ty = "Warn"]

\* --------------------------------------------------- override expressions
\* A field or variant specification: implicit, an override expression, or
\* (force_from! struct only) an override tagged @warn.  val stands for what
\* the user's expression evaluates to.
ImplicitSpec == [kind |-> "implicit", val |-> 0]
PlainSpecs == {ImplicitSpec} \cup [kind : {"override"}, val : OvrVal]
WarnSpecs == [kind : {"warn"}, val : OvrVal]

\* The value a struct-field override expression evaluates to.
OverrideValue(spec) == [ty |-> "Ovr", n |-> spec.val]

\* The destination variant an enum override expression builds.
OverrideVariant(spec) ==
    [variant |-> "CaseX", payloads |-> <<[ty |-> "Ovr", n |-> spec.val]>>]

\* The Result an override arm of try_from! evaluates to: Ok, or an Err that
\* is already of the declared error type.
OverrideResult(spec) ==
    IF spec.val = 0 THEN [kind |-> "Ok", value |-> OverrideVariant(spec)]
    ELSE [kind |-> "Err", error |-> [ty |-> "Error", n |-> spec.val]]

\* The warnings an override pair carries: spec.val of them, the first of
\* another warning type, the rest already of the destination's.
PairWarnings(spec, c) ==
    [k \in 1..spec.val |->
        [ty |-> IF k = 1 THEN "FieldWarn" ELSE "Warn",
         n |-> spec.val, k |-> k, call |-> c]]

\* The Warned pair an @warn field override evaluates to.
OverridePair(spec, c) ==
    [value |-> OverrideValue(spec), warnings |-> PairWarnings(spec, c)]

\* The Warned pair an override arm of force_from! evaluates to.
OverrideWarned(spec, c) ==
    [value |-> OverrideVariant(spec),
     warnings |-> [k \in 1..spec.val |-> FieldWarn(spec.val, k, c)]]

\* ----------------------------------------------- language and library steps
\* The `?` operator on a Result: an Ok continues with its value, an Err
\* returns from the function with the error passed through From::from.
Question(r) ==
    IF r.kind = "Err" THEN [kind |-> "Err", error |-> FromErr(r.error)]
    ELSE r

\* Warned::new(value, warnings).
Warned_new(value, ws) == [kind |-> "Warned", value |-> value, warnings |-> ws]

\* Mutation of Warned_unwrap: the pair's warnings are put in front of the
\* accumulator instead of behind it.
Warned_unwrap_prepend(pair, ws) ==
    [value |-> pair.value, warnings |-> SeqMap(IntoWarn, pair.warnings) \o ws]

\* Warned::unwrap(pair, &mut warnings): the pair's warnings are appended to
\* the accumulator, each carried into the accumulator's warning type; the
\* pair's value is what the call evaluates to.  The accumulator is a
\* Vec<$warn_type> while the pair holds the warning type of the field's own
\* ForceInto impl, so the append converts (the identity when the two types
\* are the same).  Warned is the type of the `warned` crate, re-exported by
\* this one.
Warned_unwrap(pair, ws) ==
    [value |-> pair.value, warnings |-> ws \o SeqMap(IntoWarn, pair.warnings)]

\* Warned::map_warnings(pair, Into::into).
Warned_map_warnings(pair) ==
    Warned_new(pair.value, SeqMap(IntoWarn, pair.warnings))

\* value.into() for a Warned destination: the value with no warnings.
Warned_from(value) == Warned_new(value, <<>>)

\* -------------------------------------------------- the field-level macros
\* Mutation of from_struct_field: the override rule is missing, every field
\* is converted implicitly.
from_struct_field_no_override(v, spec) == Into(v)

\* __from_struct_field!: the value of one destination field.
from_struct_field(v, spec) ==
    IF spec.kind = "implicit" THEN Into(v) ELSE OverrideValue(spec)

\* Mutation of try_from_struct_field: the implicit rule is the one of
\* __from_struct_field!, .into() with no `?`.
try_from_struct_field_into(v, spec) ==
    [kind |-> "Ok",
     value |-> IF spec.kind = "implicit" THEN Into(v) ELSE OverrideValue(spec)]

\* __try_from_struct_field!: Ok of the field value, or the Err that `?`
\* returns from the function.
try_from_struct_field(v, spec) ==
    IF spec.kind = "implicit" THEN Question(TryInto(v))
    ELSE [kind |-> "Ok", value |-> OverrideValue(spec)]

\* Mutation of force_from_struct_field: the rule without @warn is missing,
\* every override is unwrapped as a pair.
force_from_struct_field_always_unwrap(v, spec, ws, c) ==
    IF spec.kind = "implicit" THEN Warned_unwrap(ForceInto(v, c), ws)
    ELSE Warned_unwrap(OverridePair(spec, c), ws)

\* __force_from_struct_field!: the field value and the accumulator after it.
force_from_struct_field(v, spec, ws, c) ==
    CASE spec.kind = "implicit" -> Warned_unwrap(ForceInto(v, c), ws)
      [] spec.kind = "warn" -> Warned_unwrap(OverridePair(spec, c), ws)
      [] OTHER -> [value |-> OverrideValue(spec), warnings |-> ws]

\* ------------------------------------------------ the variant-level macros
Variant(name, payloads) == [variant |-> name, payloads |-> payloads]

\* Mutation of from_enum_variant: the rule without override is missing.
from_enum_variant_override_only(name, ps, spec) == OverrideVariant(spec)

\* __from_enum_variant!: the arm's result.
from_enum_variant(name, ps, spec) ==
    IF spec.kind = "implicit" THEN Variant(name, SeqMap(Into, ps))
    ELSE OverrideVariant(spec)

\* The payload arguments of Self::$variant($var.try_into()?, ...), evaluated
\* left to right from payload i on: `?` returns at the first failure.
\* evaluated is the number of payloads whose conversion ran.
RECURSIVE TryPayloads(_, _, _)
TryPayloads(ps, i, built) ==
    IF i > Len(ps) THEN [kind |-> "Ok", value |-> built, evaluated |-> Len(ps)]
    ELSE LET r == Question(TryInto(ps[i]))
         IN IF r.kind = "Err"
            THEN [kind |-> "Err", error |-> r.error, evaluated |-> i]
            ELSE TryPayloads(ps, i + 1, Append(built, r.value))

\* __try_from_enum_variant!: the arm's result (a Result), with the number of
\* payload conversions that ran.
try_from_enum_variant(name, ps, spec) ==
    IF spec.kind = "implicit"
    THEN LET r == TryPayloads(ps, 1, <<>>)
         IN IF r.kind = "Ok"
            THEN [kind |-> "Ok", value |-> Variant(name, r.value),
                  evaluated |-> r.evaluated]
            ELSE r
    ELSE [evaluated |-> 0] @@ OverrideResult(spec)

\* The payload arguments of Self::$variant(Warned::unwrap(force_into($var),
\* &mut warnings), ...), evaluated left to right from payload i on.
RECURSIVE ForcePayloads(_, _, _, _, _)
ForcePayloads(ps, i, built, ws, c) ==
    IF i > Len(ps) THEN [value |-> built, warnings |-> ws, evaluated |-> Len(ps)]
    ELSE LET r == Warned_unwrap(ForceInto(ps[i], c), ws)
         IN ForcePayloads(ps, i + 1, Append(built, r.value), r.warnings, c)

\* Mutation of force_from_enum_variant: the payload rule returns
\* Warned::new(value, vec![]) and loses the warnings it collected.
force_from_enum_variant_drops_warnings(name, ps, spec, c) ==
    CASE spec.kind # "implicit" ->
            [evaluated |-> 0] @@ Warned_map_warnings(OverrideWarned(spec, c))
      [] Len(ps) = 0 ->
            [evaluated |-> 0] @@ Warned_from(Variant(name, <<>>))
      [] OTHER ->
            LET r == ForcePayloads(ps, 1, <<>>, <<>>, c)
            IN [evaluated |-> r.evaluated]
               @@ Warned_new(Variant(name, r.value), <<>>)

\* Mutation of force_from_enum_variant: the override rule is shadowed, an
\* arm with an override is expanded as if it had none.
force_from_enum_variant_no_override(name, ps, spec, c) ==
    IF Len(ps) = 0
    THEN [evaluated |-> 0] @@ Warned_from(Variant(name, <<>>))
    ELSE LET r == ForcePayloads(ps, 1, <<>>, <<>>, c)
         IN [evaluated |-> r.evaluated]
            @@ Warned_new(Variant(name, r.value), r.warnings)

\* __force_from_enum_variant!: the arm's result (a Warned pair), with the
\* number of payload conversions that ran.
force_from_enum_variant(name, ps, spec, c) ==
    CASE spec.kind # "implicit" ->
            [evaluated |-> 0] @@ Warned_map_warnings(OverrideWarned(spec, c))
      [] Len(ps) = 0 ->
            [evaluated |-> 0] @@ Warned_from(Variant(name, <<>>))
      [] OTHER ->
            LET r == ForcePayloads(ps, 1, <<>>, <<>>, c)
            IN [evaluated |-> r.evaluated]
               @@ Warned_new(Variant(name, r.value), r.warnings)

\* Mutation of match_arm: the first arm is taken whatever the variant.
match_first(s) == 1

\* match $src { Src::$variant(..) => arm, ... }: the position of the arm whose
\* pattern is the source value's variant.
match_arm(s) == CHOOSE i \in 1..Len(Variants) : Variants[i] = s.variant

\* ------------------------------------------------------------------ state
VARIABLES
    macro,      \* the macro that generated the conversion: from, try_from, force_from
    shape,      \* "struct" or "enum": the form of the request
    req,        \* the request's field or variant specifications, in order
    pc,         \* "idle", "fields" (struct body), "arm" (enum arm), "done"
    calls,      \* number of conversion calls started so far
    src,        \* the source value of the current call
    idx,        \* struct: the next field specification to evaluate
    arm,        \* enum: the arm selected by the match
    built,      \* struct: the destination fields built so far
    warnings,   \* the local `warnings` vector of the current call
    evaluated,  \* the field (struct) or payload (enum) conversions that ran, in order
    result,     \* what the call returned
    returned    \* how many times the current call has returned

vars == <<macro, shape, req, pc, calls, src, idx, arm, built, warnings,
          evaluated, result, returned>>

NoResult == [kind |-> "none"]

Macros == {"from", "try_from", "force_from"}
Shapes == {"struct", "enum"}

\* The specifications a request of macro m and shape sh may hold: @warn is
\* accepted by the struct form of force_from! only.
Requests(m, sh) ==
    IF sh = "struct"
    THEN [1..Len(Fields) ->
            IF m = "force_from" THEN PlainSpecs \cup WarnSpecs ELSE PlainSpecs]
    ELSE [1..Len(Variants) -> PlainSpecs]

\* The source values of a call.
Sources(sh) ==
    IF sh = "struct"
    THEN {Variant("StructA", ps) : ps \in [1..Len(Fields) -> Val]}
    ELSE UNION {{Variant(Variants[i], ps) : ps \in [1..Arity[Variants[i]] -> Val]}
                : i \in 1..Len(Variants)}

\* The program is one macro invocation; no conversion has been called.
Init ==
    /\ macro \in Macros
    /\ shape \in Shapes
    /\ req \in Requests(macro, shape)
    /\ pc = "idle"
    /\ calls = 0
    /\ src = Variant("none", <<>>)
    /\ idx = 0
    /\ arm = 0
    /\ built = <<>>
    /\ warnings = <<>>
    /\ evaluated = <<>>
    /\ result = NoResult
    /\ returned = 0

\* Mutation of vec_new: the accumulator of the previous call is reused.
vec_stale == warnings

\* let mut warnings = vec![];
vec_new == <<>>

\* Entry of the generated function with source value s: the struct forms
\* start on the first field, the enum forms have matched the source variant.
Enter(s) ==
    /\ pc \in {"idle", "done"}
    /\ calls < MaxCalls
    /\ s \in Sources(shape)
    /\ calls' = calls + 1
    /\ src' = s
    /\ pc' = IF shape = "struct" THEN "fields" ELSE "arm"
    /\ idx' = IF shape = "struct" THEN 1 ELSE 0
    /\ arm' = IF shape = "enum" THEN match_arm(s) ELSE 0
    /\ built' = <<>>
    /\ evaluated' = <<>>
    /\ result' = NoResult
    /\ returned' = 0
    /\ UNCHANGED <<macro, shape, req>>

\* fn from(src) of the impl generated by from!.
from(s) ==
    /\ macro = "from"
    /\ Enter(s)
    /\ UNCHANGED warnings

\* fn try_from(src) of the impl generated by try_from!.
try_from(s) ==
    /\ macro = "try_from"
    /\ Enter(s)
    /\ UNCHANGED warnings

\* fn force_from(src) of the impl generated by force_from!: the struct form
\* starts with a new, empty accumulator.
force_from(s) ==
    /\ macro = "force_from"
    /\ Enter(s)
    /\ warnings' = vec_new

\* Mutation of LastField: the struct is returned after its first field.
FirstField == idx >= 1

\* The struct value is complete after its last field.
LastField == idx = Len(Fields)

\* from! as struct: Self { field: __from_struct_field!(..), .. }, one field.
from_struct ==
    /\ macro = "from" /\ pc = "fields"
    /\ LET value == from_struct_field(src.payloads[idx], req[idx])
           fields == Append(built, value)
       IN /\ built' = fields
          /\ evaluated' = Append(evaluated, idx)
          /\ IF LastField
             THEN /\ result' = [kind |-> "Value", value |-> Variant("StructB", fields)]
                  /\ returned' = returned + 1
                  /\ pc' = "done"
             ELSE UNCHANGED <<result, returned, pc>>
    /\ idx' = idx + 1
    /\ UNCHANGED <<macro, shape, req, calls, src, arm, warnings>>

\* try_from! as struct: Ok(Self { field: __try_from_struct_field!(..), .. }),
\* one field; a failing `?` returns from the function.
try_from_struct ==
    /\ macro = "try_from" /\ pc = "fields"
    /\ LET r == try_from_struct_field(src.payloads[idx], req[idx])
           fields == Append(built, r.value)
       IN /\ evaluated' = Append(evaluated, idx)
          /\ IF r.kind = "Err"
             THEN /\ result' = r
                  /\ returned' = returned + 1
                  /\ pc' = "done"
                  /\ UNCHANGED built
             ELSE /\ built' = fields
                  /\ IF LastField
                     THEN /\ result' = [kind |-> "Ok", value |-> Variant("StructB", fields)]
                          /\ returned' = returned + 1
                          /\ pc' = "done"
                     ELSE UNCHANGED <<result, returned, pc>>
    /\ idx' = idx + 1
    /\ UNCHANGED <<macro, shape, req, calls, src, arm, warnings>>

\* force_from! as struct: Self { field: __force_from_struct_field!(..), .. },
\* one field; after the last, Warned::new(value, warnings).
force_from_struct ==
    /\ macro = "force_from" /\ pc = "fields"
    /\ LET r == force_from_struct_field(src.payloads[idx], req[idx], warnings, calls)
           fields == Append(built, r.value)
       IN /\ built' = fields
          /\ warnings' = r.warnings
          /\ evaluated' = Append(evaluated, idx)
          /\ IF LastField
             THEN /\ result' = Warned_new(Variant("StructB", fields), r.warnings)
                  /\ returned' = returned + 1
                  /\ pc' = "done"
             ELSE UNCHANGED <<result, returned, pc>>
    /\ idx' = idx + 1
    /\ UNCHANGED <<macro, shape, req, calls, src, arm>>

\* from! as enum: the selected arm, __from_enum_variant!(..).
from_enum ==
    /\ macro = "from" /\ pc = "arm"
    /\ LET value == from_enum_variant(Variants[arm], src.payloads, req[arm])
       IN /\ result' = [kind |-> "Value", value |-> value]
          /\ evaluated' = IF req[arm].kind = "implicit"
                          THEN [i \in 1..Len(src.payloads) |-> i] ELSE <<>>
    /\ returned' = returned + 1
    /\ pc' = "done"
    /\ UNCHANGED <<macro, shape, req, calls, src, idx, arm, built, warnings>>

\* try_from! as enum: the selected arm, __try_from_enum_variant!(..).
try_from_enum ==
    /\ macro = "try_from" /\ pc = "arm"
    /\ LET r == try_from_enum_variant(Variants[arm], src.payloads, req[arm])
       IN /\ result' = IF r.kind = "Ok" THEN [kind |-> "Ok", value |-> r.value]
                       ELSE [kind |-> "Err", error |-> r.error]
          /\ evaluated' = [i \in 1..r.evaluated |-> i]
    /\ returned' = returned + 1
    /\ pc' = "done"
    /\ UNCHANGED <<macro, shape, req, calls, src, idx, arm, built, warnings>>

\* force_from! as enum: the selected arm, __force_from_enum_variant!(..).
force_from_enum ==
    /\ macro = "force_from" /\ pc = "arm"
    /\ LET r == force_from_enum_variant(Variants[arm], src.payloads, req[arm], calls)
       IN /\ result' = Warned_new(r.value, r.warnings)
          /\ evaluated' = [i \in 1..r.evaluated |-> i]
    /\ returned' = returned + 1
    /\ pc' = "done"
    /\ UNCHANGED <<macro, shape, req, calls, src, idx, arm, built, warnings>>

Next ==
    \/ \E s \in Sources(shape) : from(s)
    \/ \E s \in Sources(shape) : try_from(s)
    \/ \E s \in Sources(shape) : force_from(s)
    \/ from_struct
    \/ try_from_struct
    \/ force_from_struct
    \/ from_enum
    \/ try_from_enum
    \/ force_from_enum

Spec == Init /\ [][Next]_vars

\* ------------------------------------------------------ checked properties
Iota(n) == [i \in 1..n |-> i]
IsPrefix(s, t) == Len(s) <= Len(t) /\ SubSeq(t, 1, Len(s)) = s
Min(S) == CHOOSE x \in S : \A y \in S : x <= y
Finished(m, sh) == pc = "done" /\ macro = m /\ shape = sh
Payloads == src.payloads
RECURSIVE Flatten(_)
Flatten(ss) == IF ss = <<>> THEN <<>> ELSE Head(ss) \o Flatten(Tail(ss))

\* The implicit fields (struct) or payloads (enum arm) whose try_into fails.
FailingFields ==
    {i \in 1..Len(Payloads) :
        req[i].kind = "implicit" /\ TryInto(Payloads[i]).kind = "Err"}
FailingPayloads == {i \in 1..Len(Payloads) : TryInto(Payloads[i]).kind = "Err"}

\* C1, as stated: in try_from! as struct, when implicit conversions fail the
\* call returns exactly the failure value of the first failing field,
\* unchanged, no destination value, and no later field is evaluated.
C1_FailureUnchanged ==
    (Finished("try_from", "struct") /\ FailingFields # {}) =>
        LET k == Min(FailingFields)
        IN /\ result = [kind |-> "Err", error |-> TryInto(Payloads[k]).error]
           /\ evaluated = Iota(k)

\* C1, amended: in try_from! as struct, when implicit conversions fail the
\* call returns Err of the first failing field's failure passed through
\* From::from into the declared error type (the failure itself when it is
\* already of that type), no destination value is in the result, and no later
\* field is evaluated; when none fails the call returns Ok.
C1_FirstFailureViaFrom ==
    Finished("try_from", "struct") =>
        IF FailingFields # {}
        THEN LET k == Min(FailingFields)
             IN /\ result = [kind |-> "Err",
                             error |-> FromErr(TryInto(Payloads[k]).error)]
                /\ evaluated = Iota(k)
                /\ Len(built) = k - 1
        ELSE result.kind = "Ok" /\ evaluated = Iota(Len(Fields))

\* Two implicit fields fail with different failures, the first of a foreign
\* error type, and the call has returned the first one's.
C1_Witness ==
    /\ Finished("try_from", "struct")
    /\ req[1].kind = "implicit" /\ req[2].kind = "implicit"
    /\ Payloads = <<1, 2>>
    /\ result.kind = "Err" /\ result.error.n = 1
    /\ evaluated = <<1>>

\* The warnings field i's own conversion produces in the current call, as
\* they arrive in the destination's warning type: those of force_into for an
\* implicit field, those of the pair for an @warn override, none for a plain
\* override.
FieldWarnings(i) ==
    CASE req[i].kind = "implicit" ->
            SeqMap(IntoWarn, ForceInto(Payloads[i], calls).warnings)
      [] req[i].kind = "warn" -> SeqMap(IntoWarn, PairWarnings(req[i], calls))
      [] OTHER -> <<>>

\* C2: in force_from! as struct, the warnings returned with the value are the
\* concatenation, in field declaration order, of the warnings of each field's
\* own conversion (implicit force_into fields and @warn overrides), each
\* carried into the destination's warning type, with nothing added, dropped
\* or reordered.
C2_WarningsConcatenated ==
    Finished("force_from", "struct") =>
        result.warnings = Flatten([i \in 1..Len(Fields) |-> FieldWarnings(i)])

\* An @warn override carrying two warnings is followed by an implicit field
\* whose conversion warns twice: four warnings, the pair's first.
C2_Witness ==
    /\ Finished("force_from", "struct")
    /\ req[1] = [kind |-> "warn", val |-> 2]
    /\ req[2].kind = "implicit" /\ Payloads[2] = 2
    /\ Len(result.warnings) = 4
    /\ result.warnings[1].k = 1 /\ result.warnings[1].ty = "Warn"
    /\ result.warnings[3] = IntoWarn(FieldWarn(2, 1, calls))

\* C3: the struct built by from! as struct holds, for every field without an
\* override, into() of the like-named source field, and for every field with
\* an override the override expression's value, whatever the source field is.
C3_FieldForField ==
    Finished("from", "struct") =>
        /\ result.kind = "Value"
        /\ result.value =
              Variant("StructB",
                      [i \in 1..Len(Fields) |->
                          IF req[i].kind = "implicit" THEN Into(Payloads[i])
                          ELSE [ty |-> "Ovr", n |-> req[i].val]])

\* The example of the documentation: num implicit, text overridden.
C3_Witness ==
    /\ Finished("from", "struct")
    /\ req[1].kind = "implicit" /\ req[2] = [kind |-> "override", val |-> 1]
    /\ Payloads[1] = 2
    /\ result.value.payloads = <<[ty |-> "Dst", n |-> 2], [ty |-> "Ovr", n |-> 1]>>

\* The destination variant an arm without override builds when every payload
\* converts: the same-named variant of the implicitly converted payloads.
SameNamed == Variant(src.variant, [i \in 1..Len(Payloads) |-> [ty |-> "Dst", n |-> Payloads[i]]])
ArmSpec == req[arm]

\* C4: in all three enum forms, converting a value of a listed variant runs
\* exactly that variant's arm and yields the destination variant specified
\* for it: without override the same-named variant of the implicitly
\* converted payloads (for try_from!, Ok of it whenever it yields a value,
\* which it does when every payload converts), with an override the override's
\* result.
C4_EnumRoundTrip ==
    (pc = "done" /\ shape = "enum") =>
        /\ Variants[arm] = src.variant
        /\ macro = "from" =>
              result.value = IF ArmSpec.kind = "implicit" THEN SameNamed
                             ELSE OverrideVariant(ArmSpec)
        /\ macro = "try_from" =>
              IF ArmSpec.kind = "implicit"
              THEN /\ FailingPayloads = {} => result.kind = "Ok"
                   /\ result.kind = "Ok" => result.value = SameNamed
              ELSE result = OverrideResult(ArmSpec)
        /\ macro = "force_from" =>
              result.value = IF ArmSpec.kind = "implicit" THEN SameNamed
                             ELSE OverrideVariant(ArmSpec)

\* The example of the documentation, Case2(n) with no override, in try_from!.
C4_Witness ==
    /\ pc = "done" /\ shape = "enum" /\ macro = "try_from"
    /\ src = Variant("Case2", <<0>>)
    /\ ArmSpec.kind = "implicit"
    /\ result = [kind |-> "Ok", value |-> Variant("Case2", <<[ty |-> "Dst", n |-> 0]>>)]

\* The specifications a finished call has evaluated: the fields of a struct
\* request, the one arm the match selected of an enum request.
SpecsEvaluated ==
    IF shape = "struct" THEN {evaluated[i] : i \in 1..Len(evaluated)} ELSE {arm}

\* C5, as stated: a force_from! conversion always evaluates every field or
\* variant specification of its request and returns a value with warnings.
C5_EverySpecEvaluated ==
    (pc = "done" /\ macro = "force_from") =>
        /\ SpecsEvaluated = 1..Len(req)
        /\ result.kind = "Warned"

\* C5, amended: a force_from! conversion never short-circuits: a struct
\* request evaluates every field specification, an enum request evaluates the
\* arm of the source variant (and no other) with every payload of it that is
\* converted implicitly; a started call can always take its next step, and it
\* returns a destination value together with its warnings whatever warnings
\* the conversions produce.
C5_NeverShortCircuits ==
    macro = "force_from" =>
        /\ pc = "fields" => ENABLED force_from_struct
        /\ pc = "arm" => ENABLED force_from_enum
        /\ pc = "done" =>
              /\ result.kind = "Warned"
              /\ shape = "struct" =>
                    /\ evaluated = Iota(Len(Fields))
                    /\ Len(result.value.payloads) = Len(Fields)
              /\ shape = "enum" =>
                    /\ \A i \in SpecsEvaluated : Variants[i] = src.variant
                    /\ ArmSpec.kind = "implicit" => evaluated = Iota(Len(Payloads))

\* Every field conversion warned, and the struct was still built in full.
C5_Witness ==
    /\ Finished("force_from", "struct")
    /\ req[1].kind = "implicit" /\ req[2].kind = "implicit"
    /\ Payloads = <<2, 1>>
    /\ Len(result.warnings) = 3
    /\ evaluated = <<1, 2>>

\* The finished call ran an enum arm that carries an override.
OverrideArm == pc = "done" /\ shape = "enum" /\ ArmSpec.kind = "override"

\* C6, as stated: in all three enum forms the result of an arm with an
\* override is exactly what the override expression evaluates to, its value
\* and its warnings untransformed, and no payload is converted.
C6_OverrideVerbatim ==
    OverrideArm =>
        /\ evaluated = <<>>
        /\ macro = "from" =>
              result = [kind |-> "Value", value |-> OverrideVariant(ArmSpec)]
        /\ macro = "try_from" => result = OverrideResult(ArmSpec)
        /\ macro = "force_from" =>
              result = [kind |-> "Warned"] @@ OverrideWarned(ArmSpec, calls)

\* C6, amended: the result of an arm with an override is exactly what the
\* override expression evaluates to in from! and try_from!; in force_from! it
\* is the override pair's value, unchanged, with the pair's warnings each
\* passed through Into::into into the destination's warning type, in the
\* same order; in no form is a payload converted.
C6_OverrideThenIntoWarnings ==
    OverrideArm =>
        /\ evaluated = <<>>
        /\ macro = "from" =>
              result = [kind |-> "Value", value |-> OverrideVariant(ArmSpec)]
        /\ macro = "try_from" => result = OverrideResult(ArmSpec)
        /\ macro = "force_from" =>
              LET pair == OverrideWarned(ArmSpec, calls)
              IN /\ result.value = pair.value
                 /\ Len(result.warnings) = Len(pair.warnings)
                 /\ \A k \in 1..Len(pair.warnings) :
                       result.warnings[k] = [pair.warnings[k] EXCEPT !.ty = "Warn"]

\* A force_from! arm whose override pair carries two warnings of another type.
C6_Witness ==
    /\ OverrideArm /\ macro = "force_from"
    /\ src.variant = "Case3"
    /\ ArmSpec.val = 2
    /\ Len(result.warnings) = 2
    /\ result.warnings[2].ty = "Warn"
    /\ result.value.variant = "CaseX"

\* C7: a zero-payload variant with no override converts to the same-named
\* destination variant, never fails and carries no warnings: from! yields the
\* variant, try_from! Ok of it, force_from! the variant with no warnings.
C7_UnitVariant ==
    (pc = "done" /\ shape = "enum" /\ Arity[src.variant] = 0
        /\ \A i \in 1..Len(Variants) :
              Variants[i] = src.variant => req[i].kind = "implicit") =>
        LET unit == [variant |-> src.variant, payloads |-> <<>>]
        IN /\ macro = "from" => result = [kind |-> "Value", value |-> unit]
           /\ macro = "try_from" => result = [kind |-> "Ok", value |-> unit]
           /\ macro = "force_from" =>
                 result = [kind |-> "Warned", value |-> unit, warnings |-> <<>>]

\* Case1 with no override, converted by force_from!.
C7_Witness ==
    /\ pc = "done" /\ shape = "enum" /\ macro = "force_from"
    /\ src = Variant("Case1", <<>>)
    /\ req[1].kind = "implicit"
    /\ result.value.variant = "Case1" /\ result.warnings = <<>>

\* C8: in force_from! as struct, a field override tagged @warn is a pair: the
\* field gets the pair's value and the pair's warnings are appended to the
\* accumulator (a pair carrying one warning adds exactly that one warning, in
\* the destination's warning type); an override without @warn is the field
\* value itself and leaves the accumulator as it was.
C8_WarnTagDecides ==
    [][(macro = "force_from" /\ pc = "fields" /\ req[idx].kind # "implicit") =>
          /\ built' = Append(built, [ty |-> "Ovr", n |-> req[idx].val])
          /\ req[idx].kind = "override" => warnings' = warnings
          /\ req[idx].kind = "warn" =>
                /\ IsPrefix(warnings, warnings')
                /\ Len(warnings') = Len(warnings) + req[idx].val
                /\ \A k \in 1..req[idx].val :
                      warnings'[Len(warnings) + k] =
                         [ty |-> "Warn", n |-> req[idx].val, k |-> k, call |-> calls]
    ]_vars

\* The example scenario: one field overridden to a pair carrying one warning
\* (the other a plain override): the output holds exactly that one warning.
C8_Witness ==
    /\ Finished("force_from", "struct")
    /\ req[1] = [kind |-> "override", val |-> 1]
    /\ req[2] = [kind |-> "warn", val |-> 1]
    /\ result.value.payloads[2] = [ty |-> "Ovr", n |-> 1]
    /\ result.warnings = <<[ty |-> "Warn", n |-> 1, k |-> 1, call |-> calls]>>

\* C9: the warning accumulator of a force_from! as struct call is empty when
\* the call starts, only grows by appending during the call (so it is at
\* every step a prefix of what is finally returned), is returned exactly once,
\* paired with the constructed value, and holds no warning produced during
\* another call.
C9_AccumulatorLifecycle ==
    /\ []((macro = "force_from" /\ shape = "struct") =>
            /\ (pc = "fields" /\ idx = 1) => warnings = <<>>
            /\ pc = "fields" => (returned = 0 /\ result = NoResult)
            /\ pc = "done" =>
                  /\ returned = 1
                  /\ result.kind = "Warned"
                  /\ result.warnings = warnings
                  /\ result.value = Variant("StructB", built)
            /\ \A k \in 1..Len(warnings) : warnings[k].call = calls)
    /\ [][(macro = "force_from" /\ shape = "struct" /\ pc = "fields") =>
            IsPrefix(warnings, warnings')]_vars

\* A second call has returned its own warnings after a first call that
\* produced warnings too.
C9_Witness ==
    /\ Finished("force_from", "struct")
    /\ calls = 2
    /\ Len(result.warnings) = 3
    /\ \A k \in 1..3 : result.warnings[k].call = 2

\* C10: for a payload-carrying variant with no override, try_from! returns
\* the failure of the first payload (left to right) whose conversion fails,
\* carried into the declared error type, converts no later payload and
\* builds no variant; force_from! converts every payload, and returns the
\* same-named variant together with the payloads' warnings in left-to-right
\* payload order, each in the destination's warning type.
C10_PayloadVariant ==
    (pc = "done" /\ shape = "enum" /\ Len(Payloads) > 0
        /\ ArmSpec.kind = "implicit") =>
        /\ macro = "try_from" =>
              IF FailingPayloads # {}
              THEN LET k == Min(FailingPayloads)
                       e == TryInto(Payloads[k]).error
                   IN /\ result = [kind |-> "Err",
                                   error |-> [ty |-> "Error", n |-> e.n]]
                      /\ evaluated = Iota(k)
              ELSE result = [kind |-> "Ok", value |-> SameNamed]
        /\ macro = "force_from" =>
              /\ evaluated = Iota(Len(Payloads))
              /\ result.value = SameNamed
              /\ result.warnings =
                    Flatten([i \in 1..Len(Payloads) |->
                        [k \in 1..Payloads[i] |->
                            [ty |-> "Warn", n |-> Payloads[i], k |-> k,
                             call |-> calls]]])

\* Case3 whose two payloads both warn, converted by force_from!.
C10_Witness ==
    /\ pc = "done" /\ shape = "enum" /\ macro = "force_from"
    /\ src = Variant("Case3", <<1, 2>>)
    /\ ArmSpec.kind = "implicit"
    /\ Len(result.warnings) = 3
    /\ result.warnings[1].n = 1 /\ result.warnings[2].n = 2

====
